---- MODULE Spec2Model ----
(***************************************************************************)
(* Model of the product-agent backend (src/server.js).                     *)
(*                                                                         *)
(* Spec          the embedding variant (server.js lines 1-412): Redis hot  *)
(*               cache, OpenAI embeddings with cosine similarity, chat     *)
(*               history kept in memory and rewritten to chatHistory.json. *)
(* SpecRedisOnly the Redis-only variant (server.js lines 415-573).         *)
(*                                                                         *)
(* Node runs every handler on one thread: a handler runs without           *)
(* interruption up to its next await, so each action below is one such     *)
(* synchronous segment, resumed by the result of the awaited call.         *)
(*                                                                         *)
(* Text is a sequence of one-character strings, so that trim() is          *)
(* computed.  Time is in seconds.  A cosine similarity is kept as the      *)
(* exact rational sign(dot)*dot^2/(normA*normB), the signed square of the  *)
(* floating-point value the code computes; squaring is monotone, so the    *)
(* comparisons of the code are decided exactly.                            *)
(***************************************************************************)
EXTENDS Integers, Sequences, FiniteSets, TLC

(***************************************************************************)
(* Bounds of the model.                                                    *)
(***************************************************************************)
MaxSlots == 2        \* /ask requests in flight at the same time
MaxRequests == 2     \* /ask requests received in one run
MaxTicks == 1        \* clock advances in one run
TickStep == 3600     \* seconds per clock advance

Slots == 1..MaxSlots

(***************************************************************************)
(* Program constants.                                                      *)
(***************************************************************************)
EXMillis == 60 * 60 * 1000                    \* EX given in milliseconds
EX == 60 * 60                                \* Redis SET option EX
similarityThreshold == [num |-> 4, den |-> 5] \* 0.8

(***************************************************************************)
(* Inputs.                                                                 *)
(***************************************************************************)
Undefined == [type |-> "undefined"]
Num(n) == [type |-> "number", num |-> n]
Str(s) == [type |-> "string", str |-> s]

\* values of req.body.question sent by clients
Bodies ==
  { Undefined, Num(123), Str(<<>>), Str(<<" ">>), Str(<<"a">>), Str(<<" ", "a">>) }

\* vectors the embedding provider returns
Vectors == { <<1, 0>>, <<3, 4>> }

\* message contents the generation provider returns
Contents == { <<" ", "x">>, <<" ">> }

\* values of the x-api-key header
ADMIN_API_KEY == <<"k">>
ApiKeys == { Undefined, Str(<<"k">>), Str(<<"z">>) }

NoVector == <<>>
NoText == <<>>

(***************************************************************************)
(* JavaScript helpers.                                                     *)
(***************************************************************************)
IsSpace(c) == c = " "

RECURSIVE TrimStart(_)
TrimStart(s) ==
  IF s = <<>> THEN <<>>
  ELSE IF IsSpace(Head(s)) THEN TrimStart(Tail(s)) ELSE s

RECURSIVE TrimEnd(_)
TrimEnd(s) ==
  IF s = <<>> THEN <<>>
  ELSE IF IsSpace(s[Len(s)]) THEN TrimEnd(SubSeq(s, 1, Len(s) - 1)) ELSE s

\* String.prototype.trim
Trim(s) == TrimEnd(TrimStart(s))

\* !v for the values a JSON body or a header can hold
Falsy(v) ==
  \/ v.type = "undefined"
  \/ v.type = "number" /\ v.num = 0
  \/ v.type = "string" /\ v.str = <<>>

\* InvalidQuestion without the test of the trimmed text
InvalidQuestionNoTrim(userQuestion) ==
  \/ Falsy(userQuestion)
  \/ userQuestion.type # "string"

\* the guard of /ask that answers 400
InvalidQuestion(userQuestion) ==
  \/ Falsy(userQuestion)
  \/ userQuestion.type # "string"
  \/ Trim(userQuestion.str) = <<>>

ValidBodies == { b \in Bodies : ~InvalidQuestion(b) }
Questions == { b.str : b \in ValidBodies }
Answers == { Trim(c) : c \in Contents }

(***************************************************************************)
(* cosineSimilarity                                                        *)
(***************************************************************************)
RECURSIVE Dot(_, _, _)
Dot(vecA, vecB, i) ==
  IF i > Len(vecA) THEN 0 ELSE vecA[i] * vecB[i] + Dot(vecA, vecB, i + 1)

Sign(n) == IF n > 0 THEN 1 ELSE IF n < 0 THEN -1 ELSE 0

\* cosineSimilarity dividing by the norm of vecA alone
cosineSimilarityNormA(vecA, vecB) ==
  LET dotProduct == Dot(vecA, vecB, 1)
      normA == Dot(vecA, vecA, 1)
  IN IF normA = 0 THEN [num |-> 0, den |-> 1]
     ELSE [num |-> Sign(dotProduct) * dotProduct * dotProduct,
           den |-> normA * normA]

cosineSimilarity(vecA, vecB) ==
  LET dotProduct == Dot(vecA, vecB, 1)
      normA == Dot(vecA, vecA, 1)
      normB == Dot(vecB, vecB, 1)
  IN IF normA = 0 \/ normB = 0 THEN [num |-> 0, den |-> 1]
     ELSE [num |-> Sign(dotProduct) * dotProduct * dotProduct,
           den |-> normA * normB]

\* SimGreater with >= in the place of >
SimGreaterOrEqual(s1, s2) == s1.num * s2.den >= s2.num * s1.den

\* s1 > s2 for two similarities
SimGreater(s1, s2) == s1.num * s2.den > s2.num * s1.den

\* SimAtLeast with > in the place of >=
SimAbove(s, t) == s.num * t.den * t.den > t.num * t.num * s.den

\* s >= t for a similarity s and a non-negative plain rational t
SimAtLeast(s, t) == s.num * t.den * t.den >= t.num * t.num * s.den

HasEmbedding(chat) == "embedding" \in DOMAIN chat

\* the scan of /ask: index of the best match (0 for null) and its score
RECURSIVE FindBestMatch(_, _, _, _, _)
FindBestMatch(userEmbedding, history, i, maxSimilarity, bestMatch) ==
  IF i > Len(history) THEN [bestMatch |-> bestMatch, maxSimilarity |-> maxSimilarity]
  ELSE IF HasEmbedding(history[i])
          /\ SimGreater(cosineSimilarity(userEmbedding, history[i].embedding),
                        maxSimilarity)
       THEN FindBestMatch(userEmbedding, history, i + 1,
                          cosineSimilarity(userEmbedding, history[i].embedding), i)
       ELSE FindBestMatch(userEmbedding, history, i + 1, maxSimilarity, bestMatch)

BestMatch(userEmbedding, history) ==
  FindBestMatch(userEmbedding, history, 1, [num |-> 0, den |-> 1], 0)

\* the test that reuses the best match's answer
SimilarEnough(m) ==
  m.bestMatch # 0 /\ SimAtLeast(m.maxSimilarity, similarityThreshold)

(***************************************************************************)
(* State.                                                                  *)
(***************************************************************************)
VARIABLES
  phase,        \* "connecting", "backfill", "listening" or "exited"
  chatHistory,  \* the in-memory list of chats
  disk,         \* the list stored in chatHistory.json
  saved,        \* whether the last write of chatHistory.json succeeded
  bfIdx,        \* initializeEmbeddings: position of the loop
  updated,      \* initializeEmbeddings: the flag updated
  redis,        \* the set of live Redis entries [key, value, expiresAt]
  now,          \* the clock, in seconds
  req,          \* the /ask request of each slot
  nReq,         \* number of /ask requests received
  answered,     \* for each question, the replies sent with status 200
  last          \* the request that ended in the last step, with its response

vars == <<phase, chatHistory, disk, saved, bfIdx, updated, redis, now,
          req, nReq, answered, last>>

\* a slot without a request.  body is req.body.question; apiKey is the
\* x-api-key header of an admin request and list is the body of the response
\* of GET /history.  The counters and flags record what the request has done so
\* far; prior holds the replies already sent for its question when it arrived.
IdleReq ==
  [ op |-> "none", pc |-> "idle", body |-> Undefined, list |-> <<>>,
    userEmbedding |-> NoVector,
    answer |-> NoText, source |-> "none", status |-> 0, reply |-> NoText,
    getCalls |-> 0, setCalls |-> 0, setFailed |-> FALSE,
    embedCalls |-> 0, genCalls |-> 0, appended |-> 0, saveFailed |-> FALSE,
    responses |-> 0, prior |-> {}, apiKey |-> Undefined ]

\* chat histories found in chatHistory.json at startup
InitialHistories ==
  { <<>>,
    << [question |-> <<"a">>, answer |-> <<"y">>, timestamp |-> 0] >> }

Init ==
  /\ phase = "connecting"
  /\ disk \in InitialHistories
  /\ chatHistory = disk
  /\ saved = TRUE
  /\ bfIdx = 1
  /\ updated = FALSE
  /\ redis = {}
  /\ now = 0
  /\ req = [i \in Slots |-> IdleReq]
  /\ nReq = 0
  /\ answered = [q \in Questions |-> {}]
  /\ last = IdleReq

(***************************************************************************)
(* Persistence and the hot cache.                                          *)
(***************************************************************************)
\* saveChatHistory called before the last chat was pushed
saveChatHistoryStale(history, fsOk) ==
  /\ disk' = IF fsOk /\ history # <<>>
             THEN SubSeq(history, 1, Len(history) - 1) ELSE disk
  /\ saved' = fsOk

\* saveChatHistory: the file takes the list, or keeps its content when
\* writeFileSync throws
saveChatHistory(history, fsOk) ==
  /\ disk' = IF fsOk THEN history ELSE disk
  /\ saved' = fsOk

\* redisClient.get: the value of the live entry, NoText for nil
RedisGet(key) ==
  IF \E e \in redis : e.key = key
  THEN (CHOOSE e \in redis : e.key = key).value
  ELSE NoText

\* redisClient.set(key, value, {EX: ex})
RedisSet(key, value, ex) ==
  { e \in redis : e.key # key }
    \cup { [key |-> key, value |-> value, expiresAt |-> now + ex] }

(***************************************************************************)
(* Startup.                                                                *)
(***************************************************************************)
\* await redisClient.connect(); chatHistory = loadChatHistory()
Connect(ok) ==
  /\ phase = "connecting"
  /\ phase' = IF ok THEN "backfill" ELSE "exited"
  /\ chatHistory' = IF ok THEN disk ELSE chatHistory
  /\ last' = IdleReq
  /\ UNCHANGED <<disk, saved, bfIdx, updated, redis, now, req, nReq,
                 answered>>

\* Pending without the test of chat.embedding
PendingAll == bfIdx..Len(chatHistory)

\* positions at or after bfIdx of the chats without an embedding
Pending == { k \in bfIdx..Len(chatHistory) : ~HasEmbedding(chatHistory[k]) }

Min(S) == CHOOSE k \in S : \A m \in S : k <= m

\* initializeEmbeddings: getEmbedding returns for the next chat without one
BackfillEmbed(embedding) ==
  /\ phase = "backfill"
  /\ Pending # {}
  /\ LET k == Min(Pending)
     IN /\ chatHistory' =
             IF embedding # NoVector
             THEN [chatHistory EXCEPT ![k] = @ @@ [embedding |-> embedding]]
             ELSE chatHistory
        /\ updated' = (updated \/ embedding # NoVector)
        /\ bfIdx' = k + 1
  /\ last' = IdleReq
  /\ UNCHANGED <<phase, disk, saved, redis, now, req, nReq, answered>>

\* initializeEmbeddings: end of the loop; app.listen
BackfillFinish(fsOk) ==
  /\ phase = "backfill"
  /\ Pending = {}
  /\ IF updated THEN saveChatHistory(chatHistory, fsOk)
                ELSE UNCHANGED <<disk, saved>>
  /\ phase' = "listening"
  /\ bfIdx' = Len(chatHistory) + 1
  /\ last' = IdleReq
  /\ UNCHANGED <<chatHistory, updated, redis, now, req, nReq, answered>>

(***************************************************************************)
(* POST /ask                                                               *)
(***************************************************************************)
\* res.json / res.status(..).json: the request of slot i, in state r, sends
\* its response and ends
Respond(i, r, status, reply) ==
  /\ last' = [r EXCEPT !.pc = "done", !.status = status, !.reply = reply,
                       !.responses = @ + 1]
  /\ req' = [req EXCEPT ![i] = IdleReq]
  /\ answered' = IF status = 200
                 THEN [answered EXCEPT ![r.body.str] = @ \cup {reply}]
                 ELSE answered

Known(q) == \E k \in 1..Len(chatHistory) : chatHistory[k].question = q

\* AskReceive for a server that listens before the startup is over
AskReceiveAnyPhase(i, body) ==
  /\ phase # "exited"
  /\ req[i].pc = "idle"
  /\ nReq < MaxRequests
  /\ nReq' = nReq + 1
  /\ IF InvalidQuestion(body)
     THEN Respond(i, [IdleReq EXCEPT !.op = "ask", !.body = body], 400, NoText)
     ELSE /\ req' = [req EXCEPT ![i] =
                       [IdleReq EXCEPT !.op = "ask", !.body = body, !.pc = "get",
                                       !.getCalls = 1,
                                       !.prior = answered[body.str]]]
          /\ last' = IdleReq
          /\ UNCHANGED answered
  /\ UNCHANGED <<phase, chatHistory, disk, saved, bfIdx, updated, redis, now>>

\* the request arrives: validation, then redisClient.get is awaited
AskReceive(i, body) ==
  /\ phase = "listening"
  /\ req[i].pc = "idle"
  /\ nReq < MaxRequests
  /\ nReq' = nReq + 1
  /\ IF InvalidQuestion(body)
     THEN Respond(i, [IdleReq EXCEPT !.op = "ask", !.body = body], 400, NoText)
     ELSE /\ req' = [req EXCEPT ![i] =
                       [IdleReq EXCEPT !.op = "ask", !.body = body, !.pc = "get",
                                       !.getCalls = 1,
                                       !.prior = answered[body.str]]]
          /\ last' = IdleReq
          /\ UNCHANGED answered
  /\ UNCHANGED <<phase, chatHistory, disk, saved, bfIdx, updated, redis, now>>

\* AskCacheGet that asks for the embedding before it looks at the cached answer
AskCacheGetEmbedsFirst(i, redisOk) ==
  /\ req[i].pc = "get"
  /\ req' = [req EXCEPT ![i] = [@ EXCEPT !.pc = "embed", !.embedCalls = @ + 1]]
  /\ last' = IdleReq
  /\ UNCHANGED <<phase, chatHistory, disk, saved, bfIdx, updated, redis, now,
                 nReq, answered>>

\* redisClient.get returns or throws; on a hit the cached answer is the
\* reply, otherwise getEmbedding is awaited
AskCacheGet(i, redisOk) ==
  /\ req[i].pc = "get"
  /\ LET userQuestion == req[i].body.str
         cachedAnswer == IF redisOk THEN RedisGet(userQuestion) ELSE NoText
     IN IF cachedAnswer # NoText
        THEN Respond(i, [req[i] EXCEPT !.source = "cache"], 200, cachedAnswer)
        ELSE /\ req' = [req EXCEPT ![i] =
                          [@ EXCEPT !.pc = "embed", !.embedCalls = @ + 1]]
             /\ last' = IdleReq
          /\ UNCHANGED answered
  /\ UNCHANGED <<phase, chatHistory, disk, saved, bfIdx, updated, redis, now,
                 nReq>>

\* AskEmbedding that also pushes a chat when it reuses the best match's answer
AskEmbeddingPersistsHit(i, userEmbedding) ==
  /\ req[i].pc = "embed"
  /\ LET m == BestMatch(userEmbedding, chatHistory)
     IN IF userEmbedding = NoVector
        THEN /\ Respond(i, req[i], 500, NoText)
             /\ UNCHANGED <<chatHistory, disk, saved>>
        ELSE IF SimilarEnough(m)
        THEN /\ chatHistory' = Append(chatHistory,
                  [question |-> req[i].body.str,
                   answer |-> chatHistory[m.bestMatch].answer,
                   timestamp |-> now, embedding |-> userEmbedding])
             /\ saveChatHistory(chatHistory', TRUE)
             /\ req' = [req EXCEPT ![i] =
                  [@ EXCEPT !.answer = chatHistory[m.bestMatch].answer,
                            !.source = "similar",
                            !.pc = "set", !.setCalls = @ + 1]]
             /\ last' = IdleReq
             /\ UNCHANGED answered
        ELSE /\ req' = [req EXCEPT ![i] =
                  [@ EXCEPT !.userEmbedding = userEmbedding,
                            !.pc = "gen", !.genCalls = @ + 1]]
             /\ last' = IdleReq
             /\ UNCHANGED <<answered, chatHistory, disk, saved>>
  /\ UNCHANGED <<phase, bfIdx, updated, redis, now, nReq>>

\* AskEmbedding that goes on to the generation call without an embedding
AskEmbeddingDegrades(i, userEmbedding) ==
  /\ req[i].pc = "embed"
  /\ LET m == BestMatch(userEmbedding, chatHistory)
     IN /\ req' = [req EXCEPT ![i] =
             IF userEmbedding # NoVector /\ SimilarEnough(m)
             THEN [@ EXCEPT !.answer = chatHistory[m.bestMatch].answer,
                            !.source = "similar",
                            !.pc = "set", !.setCalls = @ + 1]
             ELSE [@ EXCEPT !.userEmbedding = userEmbedding,
                            !.pc = "gen", !.genCalls = @ + 1]]
        /\ last' = IdleReq
        /\ UNCHANGED answered
  /\ UNCHANGED <<phase, chatHistory, disk, saved, bfIdx, updated, redis, now,
                 nReq>>

\* getEmbedding returns a vector, or null (NoVector) when the provider fails;
\* then the scan of chatHistory, and either redisClient.set of the best
\* match's answer or openai.createChatCompletion is awaited
AskEmbedding(i, userEmbedding) ==
  /\ req[i].pc = "embed"
  /\ LET m == BestMatch(userEmbedding, chatHistory)
     IN IF userEmbedding = NoVector
        THEN Respond(i, req[i], 500, NoText)
        ELSE /\ req' = [req EXCEPT ![i] =
                  IF SimilarEnough(m)
                  THEN [@ EXCEPT !.answer = chatHistory[m.bestMatch].answer,
                                 !.source = "similar",
                                 !.pc = "set", !.setCalls = @ + 1]
                  ELSE [@ EXCEPT !.userEmbedding = userEmbedding,
                                 !.pc = "gen", !.genCalls = @ + 1]]
             /\ last' = IdleReq
          /\ UNCHANGED answered
  /\ UNCHANGED <<phase, chatHistory, disk, saved, bfIdx, updated, redis, now,
                 nReq>>

\* AskGenerationFails for a handler that pushes the chat before the call
AskGenerationFailsPersists(i) ==
  /\ req[i].pc = "gen"
  /\ chatHistory' = Append(chatHistory,
       [question |-> req[i].body.str, answer |-> NoText, timestamp |-> now,
        embedding |-> req[i].userEmbedding])
  /\ saveChatHistory(chatHistory', TRUE)
  /\ Respond(i, req[i], 500, NoText)
  /\ UNCHANGED <<phase, bfIdx, updated, redis, now, nReq>>

\* createChatCompletion throws: the catch block answers 500
AskGenerationFails(i) ==
  /\ req[i].pc = "gen"
  /\ Respond(i, req[i], 500, NoText)
  /\ UNCHANGED <<phase, chatHistory, disk, saved, bfIdx, updated, redis, now,
                 nReq>>

\* AskGeneration with a saveChatHistory that lets the error of writeFileSync
\* through to the catch block of the handler
AskGenerationSaveThrows(i, content, fsOk) ==
  /\ req[i].pc = "gen"
  /\ LET answer == Trim(content)
         newChat == [question |-> req[i].body.str, answer |-> answer,
                     timestamp |-> now, embedding |-> req[i].userEmbedding]
         r == [req[i] EXCEPT !.answer = answer, !.source = "generated",
                             !.userEmbedding = NoVector,
                             !.appended = @ + 1, !.saveFailed = ~fsOk]
     IN /\ chatHistory' = Append(chatHistory, newChat)
        /\ saveChatHistory(chatHistory', fsOk)
        /\ IF fsOk
           THEN /\ req' = [req EXCEPT ![i] =
                             [r EXCEPT !.pc = "set", !.setCalls = @ + 1]]
                /\ last' = IdleReq
                /\ UNCHANGED answered
           ELSE Respond(i, r, 500, NoText)
  /\ UNCHANGED <<phase, bfIdx, updated, redis, now, nReq>>

\* AskGeneration with unshift in the place of push
AskGenerationUnshift(i, content, fsOk) ==
  /\ req[i].pc = "gen"
  /\ LET answer == Trim(content)
         newChat == [question |-> req[i].body.str, answer |-> answer,
                     timestamp |-> now, embedding |-> req[i].userEmbedding]
     IN /\ chatHistory' = <<newChat>> \o chatHistory
        /\ saveChatHistory(chatHistory', fsOk)
        /\ req' = [req EXCEPT ![i] =
                     [@ EXCEPT !.answer = answer, !.source = "generated",
                               !.userEmbedding = NoVector,
                               !.appended = @ + 1, !.saveFailed = ~fsOk,
                               !.pc = "set", !.setCalls = @ + 1]]
  /\ last' = IdleReq
  /\ UNCHANGED <<phase, bfIdx, updated, redis, now, nReq, answered>>

\* AskGeneration that pushes no chat when the list holds one with the question
AskGenerationDedups(i, content, fsOk) ==
  /\ req[i].pc = "gen"
  /\ LET answer == Trim(content)
         newChat == [question |-> req[i].body.str, answer |-> answer,
                     timestamp |-> now, embedding |-> req[i].userEmbedding]
         dup == \E k \in 1..Len(chatHistory) :
                   chatHistory[k].question = req[i].body.str
     IN /\ chatHistory' = IF dup THEN chatHistory
                                 ELSE Append(chatHistory, newChat)
        /\ saveChatHistory(chatHistory', fsOk)
        /\ req' = [req EXCEPT ![i] =
                     [@ EXCEPT !.answer = answer, !.source = "generated",
                               !.userEmbedding = NoVector,
                               !.appended = IF dup THEN @ ELSE @ + 1,
                               !.saveFailed = ~fsOk,
                               !.pc = "set", !.setCalls = @ + 1]]
  /\ last' = IdleReq
  /\ UNCHANGED <<phase, bfIdx, updated, redis, now, nReq, answered>>

\* createChatCompletion returns: the new chat is pushed and the list saved,
\* then redisClient.set of the answer is awaited
AskGeneration(i, content, fsOk) ==
  /\ req[i].pc = "gen"
  /\ LET answer == Trim(content)
         newChat == [question |-> req[i].body.str, answer |-> answer,
                     timestamp |-> now, embedding |-> req[i].userEmbedding]
     IN /\ chatHistory' = Append(chatHistory, newChat)
        /\ saveChatHistory(chatHistory', fsOk)
        /\ req' = [req EXCEPT ![i] =
                     [@ EXCEPT !.answer = answer, !.source = "generated",
                               !.userEmbedding = NoVector,
                               !.appended = @ + 1, !.saveFailed = ~fsOk,
                               !.pc = "set", !.setCalls = @ + 1]]
  /\ last' = IdleReq
  /\ UNCHANGED <<phase, bfIdx, updated, redis, now, nReq, answered>>

\* AskCacheSet that stores the question in the place of the answer
AskCacheSetStoresQuestion(i, redisOk) ==
  /\ req[i].pc = "set"
  /\ redis' = IF redisOk THEN RedisSet(req[i].body.str, req[i].body.str, EX)
                         ELSE redis
  /\ Respond(i, [req[i] EXCEPT !.setFailed = ~redisOk], 200, req[i].answer)
  /\ UNCHANGED <<phase, chatHistory, disk, saved, bfIdx, updated, now, nReq>>

\* redisClient.set returns or throws (Redis has stored the entry, or not);
\* then res.json({reply})
AskCacheSet(i, redisOk) ==
  /\ req[i].pc = "set"
  /\ redis' = IF redisOk THEN RedisSet(req[i].body.str, req[i].answer, EX)
                         ELSE redis
  /\ Respond(i, [req[i] EXCEPT !.setFailed = ~redisOk], 200, req[i].answer)
  /\ UNCHANGED <<phase, chatHistory, disk, saved, bfIdx, updated, now, nReq>>

(***************************************************************************)
(* Admin routes.                                                           *)
(***************************************************************************)
\* authenticate: apiKey && apiKey === ADMIN_API_KEY
authenticate(apiKey) ==
  ~Falsy(apiKey) /\ apiKey.type = "string" /\ apiKey.str = ADMIN_API_KEY

\* the response of an admin request sent with the header apiKey
AdminResponse(op, apiKey, status, list) ==
  [IdleReq EXCEPT !.op = op, !.pc = "done", !.apiKey = apiKey,
                  !.status = status, !.list = list, !.responses = 1]

\* GET /history
History(apiKey) ==
  /\ phase = "listening"
  /\ last' = IF authenticate(apiKey)
             THEN AdminResponse("history", apiKey, 200, chatHistory)
             ELSE AdminResponse("history", apiKey, 403, <<>>)
  /\ UNCHANGED <<phase, chatHistory, disk, saved, bfIdx, updated, redis, now,
                 req, nReq, answered>>

\* ClearHistory that empties the file and keeps the list in memory
ClearHistoryFileOnly(apiKey, fsOk) ==
  /\ phase = "listening"
  /\ IF authenticate(apiKey)
     THEN /\ UNCHANGED chatHistory
          /\ saveChatHistory(<<>>, fsOk)
          /\ last' = AdminResponse("clear", apiKey, 200, <<>>)
     ELSE /\ UNCHANGED <<chatHistory, disk, saved>>
          /\ last' = AdminResponse("clear", apiKey, 403, <<>>)
  /\ UNCHANGED <<phase, bfIdx, updated, redis, now, req, nReq, answered>>

\* ClearHistory that also drops the requests in flight
ClearHistoryDropsRequests(apiKey, fsOk) ==
  /\ phase = "listening"
  /\ IF authenticate(apiKey)
     THEN /\ chatHistory' = <<>>
          /\ saveChatHistory(chatHistory', fsOk)
          /\ req' = [i \in Slots |-> IdleReq]
          /\ last' = AdminResponse("clear", apiKey, 200, <<>>)
     ELSE /\ UNCHANGED <<chatHistory, disk, saved, req>>
          /\ last' = AdminResponse("clear", apiKey, 403, <<>>)
  /\ UNCHANGED <<phase, bfIdx, updated, redis, now, nReq, answered>>

\* POST /clear-history
ClearHistory(apiKey, fsOk) ==
  /\ phase = "listening"
  /\ IF authenticate(apiKey)
     THEN /\ chatHistory' = <<>>
          /\ saveChatHistory(chatHistory', fsOk)
          /\ last' = AdminResponse("clear", apiKey, 200, <<>>)
     ELSE /\ UNCHANGED <<chatHistory, disk, saved>>
          /\ last' = AdminResponse("clear", apiKey, 403, <<>>)
  /\ UNCHANGED <<phase, bfIdx, updated, redis, now, req, nReq, answered>>

(***************************************************************************)
(* Time.                                                                   *)
(***************************************************************************)
\* the clock advances; Redis drops the entries whose time has come
Tick ==
  /\ now < MaxTicks * TickStep
  /\ now' = now + TickStep
  /\ redis' = { e \in redis : e.expiresAt > now' }
  /\ last' = IdleReq
  /\ UNCHANGED <<phase, chatHistory, disk, saved, bfIdx, updated, req, nReq,
                 answered>>

\* the server within the lifetime of its cache entries; the expiry of
\* entries is followed in SpecTtl and SpecRedisOnly
Next ==
  \/ \E ok \in BOOLEAN : Connect(ok)
  \/ \E v \in Vectors \cup {NoVector} : BackfillEmbed(v)
  \/ \E fsOk \in BOOLEAN : BackfillFinish(fsOk)
  \/ \E i \in Slots, body \in Bodies : AskReceive(i, body)
  \/ \E i \in Slots, redisOk \in BOOLEAN : AskCacheGet(i, redisOk)
  \/ \E i \in Slots, v \in Vectors \cup {NoVector} : AskEmbedding(i, v)
  \/ \E i \in Slots : AskGenerationFails(i)
  \/ \E i \in Slots, c \in Contents, fsOk \in BOOLEAN : AskGeneration(i, c, fsOk)
  \/ \E i \in Slots, redisOk \in BOOLEAN : AskCacheSet(i, redisOk)
  \/ \E k \in ApiKeys : History(k)
  \/ \E k \in ApiKeys, fsOk \in BOOLEAN : ClearHistory(k, fsOk)

Spec == Init /\ [][Next]_vars

TypeOK ==
  /\ phase \in {"loading", "connecting", "backfill", "listening", "exited"}
  /\ now \in 0..(MaxTicks * TickStep)
  /\ nReq \in 0..MaxRequests
  /\ \A i \in Slots : req[i].pc \in
       {"idle", "get", "embed", "gen", "set"}

(***************************************************************************)
(* The Redis-only variant (server.js lines 415-573).  It keeps no list in  *)
(* memory: chatHistory.json is read by getProductStatus, when the module   *)
(* is loaded, and by GET /history, and is overwritten by POST              *)
(* /clear-history.  chatHistory, saved, bfIdx and updated are not used.    *)
(***************************************************************************)
\* a chatHistory.json that getProductStatus can read
ProductFile ==
  [product |-> [preorders |-> [available |-> TRUE, details |-> <<"p">>],
                purchase |-> [available |-> FALSE]]]

InitRedisOnly ==
  /\ phase = "loading"
  /\ disk \in {<<>>, ProductFile}
  /\ chatHistory = <<>>
  /\ saved = TRUE
  /\ bfIdx = 1
  /\ updated = FALSE
  /\ redis = {}
  /\ now = 0
  /\ req = [i \in Slots |-> IdleReq]
  /\ nReq = 0
  /\ answered = [q \in Questions |-> {}]
  /\ last = IdleReq

\* getProductStatus: the destructuring of jsonData.product throws unless the
\* file holds an object with a product
getProductStatusThrows(jsonData) == "product" \notin DOMAIN jsonData

\* the module is loaded: productContext calls getProductStatus
LoadRedisOnly ==
  /\ phase = "loading"
  /\ phase' = IF getProductStatusThrows(disk) THEN "exited" ELSE "connecting"
  /\ last' = IdleReq
  /\ UNCHANGED <<chatHistory, disk, saved, bfIdx, updated, redis, now, req,
                 nReq, answered>>

\* await redisClient.connect(); app.listen
ConnectRedisOnly(ok) ==
  /\ phase = "connecting"
  /\ phase' = IF ok THEN "listening" ELSE "exited"
  /\ last' = IdleReq
  /\ UNCHANGED <<chatHistory, disk, saved, bfIdx, updated, redis, now, req,
                 nReq, answered>>

\* the request arrives: req.body.question?.trim(), then redisClient.get is
\* awaited; trim is no function of a number, and the catch block answers 500
AskReceiveRedisOnly(i, body) ==
  /\ phase = "listening"
  /\ req[i].pc = "idle"
  /\ nReq < MaxRequests
  /\ nReq' = nReq + 1
  /\ LET r == [IdleReq EXCEPT !.op = "ask", !.body = body]
     IN IF body.type = "undefined"
        THEN Respond(i, r, 400, NoText)
        ELSE IF body.type # "string"
        THEN Respond(i, r, 500, NoText)
        ELSE IF Trim(body.str) = <<>>
        THEN Respond(i, r, 400, NoText)
        ELSE /\ req' = [req EXCEPT ![i] =
                          [r EXCEPT !.body = Str(Trim(body.str)), !.pc = "get",
                                    !.getCalls = 1,
                                    !.prior = answered[Trim(body.str)]]]
             /\ last' = IdleReq
             /\ UNCHANGED answered
  /\ UNCHANGED <<phase, chatHistory, disk, saved, bfIdx, updated, redis, now>>

\* redisClient.get returns or throws; a throw reaches the catch block, which
\* answers 500; on a miss createChatCompletion is awaited
AskCacheGetRedisOnly(i, redisOk) ==
  /\ phase = "listening"
  /\ req[i].pc = "get"
  /\ LET cachedResponse == RedisGet(req[i].body.str)
     IN IF ~redisOk
        THEN Respond(i, req[i], 500, NoText)
        ELSE IF cachedResponse # NoText
        THEN Respond(i, [req[i] EXCEPT !.source = "cache"], 200, cachedResponse)
        ELSE /\ req' = [req EXCEPT ![i] =
                          [@ EXCEPT !.pc = "gen", !.genCalls = @ + 1]]
             /\ last' = IdleReq
             /\ UNCHANGED answered
  /\ UNCHANGED <<phase, chatHistory, disk, saved, bfIdx, updated, redis, now,
                 nReq>>

\* createChatCompletion throws: the catch block answers 500
AskGenerationFailsRedisOnly(i) ==
  /\ phase = "listening"
  /\ req[i].pc = "gen"
  /\ Respond(i, req[i], 500, NoText)
  /\ UNCHANGED <<phase, chatHistory, disk, saved, bfIdx, updated, redis, now,
                 nReq>>

\* createChatCompletion returns: res.json({reply}), and only then
\* redisClient.set is awaited
AskGenerationRedisOnly(i, content) ==
  /\ phase = "listening"
  /\ req[i].pc = "gen"
  /\ LET reply == Trim(content)
         r == [req[i] EXCEPT !.answer = reply, !.source = "generated",
                             !.status = 200, !.reply = reply,
                             !.responses = @ + 1]
     IN /\ last' = [r EXCEPT !.pc = "done"]
        /\ req' = [req EXCEPT ![i] = [r EXCEPT !.pc = "set", !.setCalls = @ + 1]]
        /\ answered' = [answered EXCEPT ![req[i].body.str] = @ \cup {reply}]
  /\ UNCHANGED <<phase, chatHistory, disk, saved, bfIdx, updated, redis, now,
                 nReq>>

\* redisClient.set returns or throws.  A throw reaches the catch block, for a
\* request whose response was sent (last.pc is "error"); its
\* res.status(500).json throws in turn, the headers being sent: the handler's
\* promise is rejected and nothing handles it, which ends the process or
\* not, depending on the version of Node.
AskCacheSetRedisOnly(i, redisOk, exits) ==
  /\ phase = "listening"
  /\ req[i].pc = "set"
  /\ redisOk => ~exits
  /\ redis' = IF redisOk THEN RedisSet(req[i].body.str, req[i].answer, 3600)
                         ELSE redis
  /\ phase' = IF exits THEN "exited" ELSE phase
  /\ req' = [req EXCEPT ![i] = IdleReq]
  /\ last' = IF redisOk THEN IdleReq
                        ELSE [req[i] EXCEPT !.pc = "error", !.setFailed = TRUE]
  /\ UNCHANGED <<chatHistory, disk, saved, bfIdx, updated, now, nReq, answered>>

\* GET /history, without authentication: res.json(loadChatHistory())
HistoryRedisOnly(apiKey) ==
  /\ phase = "listening"
  /\ last' = AdminResponse("history", apiKey, 200, disk)
  /\ UNCHANGED <<phase, chatHistory, disk, saved, bfIdx, updated, redis, now,
                 req, nReq, answered>>

\* POST /clear-history, without authentication: saveChatHistory([])
ClearHistoryRedisOnly(apiKey, fsOk) ==
  /\ phase = "listening"
  /\ saveChatHistory(<<>>, fsOk)
  /\ last' = AdminResponse("clear", apiKey, 200, <<>>)
  /\ UNCHANGED <<phase, chatHistory, bfIdx, updated, redis, now, req, nReq,
                 answered>>

NextRedisOnly ==
  \/ LoadRedisOnly
  \/ \E ok \in BOOLEAN : ConnectRedisOnly(ok)
  \/ \E i \in Slots, body \in Bodies : AskReceiveRedisOnly(i, body)
  \/ \E i \in Slots, redisOk \in BOOLEAN : AskCacheGetRedisOnly(i, redisOk)
  \/ \E i \in Slots : AskGenerationFailsRedisOnly(i)
  \/ \E i \in Slots, c \in Contents : AskGenerationRedisOnly(i, c)
  \/ \E i \in Slots, redisOk \in BOOLEAN, exits \in BOOLEAN :
       AskCacheSetRedisOnly(i, redisOk, exits)
  \/ \E k \in ApiKeys : HistoryRedisOnly(k)
  \/ \E k \in ApiKeys, fsOk \in BOOLEAN : ClearHistoryRedisOnly(k, fsOk)
  \/ Tick

SpecRedisOnly == InitRedisOnly /\ [][NextRedisOnly]_vars

(***************************************************************************)
(* The scan of /ask on its own: one request that has missed the hot cache  *)
(* and awaits its embedding, over lists of up to MaxScan chats with and    *)
(* without embeddings.                                                     *)
(***************************************************************************)
MaxScan == 3

\* vectors of the chats and of the question
ScanVectors == { <<1, 0>>, <<4, 3>>, <<3, 4>>, <<-1, 0>>, <<0, 0>> }

\* the chat at position k of a list, with embedding e or without one; the
\* length of the answer is the position
ScanChat(k, e) ==
  LET chat == [question |-> <<"a">>, answer |-> [j \in 1..k |-> "y"],
               timestamp |-> 0]
  IN IF e = NoVector THEN chat ELSE chat @@ [embedding |-> e]

ScanHistories ==
  UNION { { [k \in 1..n |-> ScanChat(k, f[k])] :
              f \in [1..n -> ScanVectors \cup {NoVector}] } : n \in 0..MaxScan }

InitScan ==
  /\ phase = "listening"
  /\ chatHistory \in ScanHistories
  /\ disk = chatHistory
  /\ saved = TRUE
  /\ bfIdx = Len(chatHistory) + 1
  /\ updated = FALSE
  /\ redis = {}
  /\ now = 0
  /\ req = [i \in Slots |->
              IF i = 1
              THEN [IdleReq EXCEPT !.op = "ask", !.body = Str(<<"a">>),
                                   !.pc = "embed", !.getCalls = 1,
                                   !.embedCalls = 1]
              ELSE IdleReq]
  /\ nReq = 1
  /\ answered = [q \in Questions |-> {}]
  /\ last = IdleReq

NextScan ==
  \/ \E i \in Slots, v \in ScanVectors \cup {NoVector} : AskEmbedding(i, v)
  \/ \E i \in Slots : AskGenerationFails(i)
  \/ \E i \in Slots, c \in Contents, fsOk \in BOOLEAN : AskGeneration(i, c, fsOk)
  \/ \E i \in Slots, redisOk \in BOOLEAN : AskCacheSet(i, redisOk)

SpecScan == InitScan /\ [][NextScan]_vars

(***************************************************************************)
(* The hot cache over time: the server is listening, with one chat in the  *)
(* list, and the clock advances by half hours.                             *)
(***************************************************************************)
MaxHalfHours == 3

InitTtl ==
  /\ phase = "listening"
  /\ chatHistory = << [question |-> <<"a">>, answer |-> <<"y">>,
                       timestamp |-> 0, embedding |-> <<1, 0>>] >>
  /\ disk = chatHistory
  /\ saved = TRUE
  /\ bfIdx = Len(chatHistory) + 1
  /\ updated = TRUE
  /\ redis = {}
  /\ now = 0
  /\ req = [i \in Slots |-> IdleReq]
  /\ nReq = 0
  /\ answered = [q \in Questions |-> {}]
  /\ last = IdleReq

\* the clock advances by half an hour; Redis drops the entries whose time
\* has come
TickHalf ==
  /\ now < MaxHalfHours * (TickStep \div 2)
  /\ now' = now + (TickStep \div 2)
  /\ redis' = { e \in redis : e.expiresAt > now' }
  /\ last' = IdleReq
  /\ UNCHANGED <<phase, chatHistory, disk, saved, bfIdx, updated, req, nReq,
                 answered>>

NextTtl ==
  \/ \E i \in Slots, body \in Bodies : AskReceive(i, body)
  \/ \E i \in Slots, redisOk \in BOOLEAN : AskCacheGet(i, redisOk)
  \/ \E i \in Slots, v \in Vectors \cup {NoVector} : AskEmbedding(i, v)
  \/ \E i \in Slots : AskGenerationFails(i)
  \/ \E i \in Slots, c \in Contents, fsOk \in BOOLEAN : AskGeneration(i, c, fsOk)
  \/ \E i \in Slots, redisOk \in BOOLEAN : AskCacheSet(i, redisOk)
  \/ TickHalf

SpecTtl == InitTtl /\ [][NextTtl]_vars

(***************************************************************************)
(* Startup on its own: the process starts over files of up to MaxBackfill  *)
(* chats with and without embeddings, and starts again.                    *)
(***************************************************************************)
MaxBackfill == 3

BackfillHistories ==
  UNION { { [k \in 1..n |-> ScanChat(k, f[k])] :
              f \in [1..n -> Vectors \cup {NoVector}] } : n \in 0..MaxBackfill }

InitBackfill ==
  /\ phase = "connecting"
  /\ disk \in BackfillHistories
  /\ chatHistory = disk
  /\ saved = TRUE
  /\ bfIdx = 1
  /\ updated = FALSE
  /\ redis = {}
  /\ now = 0
  /\ req = [i \in Slots |-> IdleReq]
  /\ nReq = 0
  /\ answered = [q \in Questions |-> {}]
  /\ last = IdleReq

\* the process ends and is started again: the module is loaded, with
\* chatHistory = loadChatHistory(), and the initialization runs
Restart ==
  /\ phase \in {"listening", "exited"}
  /\ phase' = "connecting"
  /\ chatHistory' = disk
  /\ bfIdx' = 1
  /\ updated' = FALSE
  /\ req' = [i \in Slots |-> IdleReq]
  /\ last' = IdleReq
  /\ UNCHANGED <<disk, saved, redis, now, nReq, answered>>

NextBackfill ==
  \/ \E ok \in BOOLEAN : Connect(ok)
  \/ \E v \in Vectors \cup {NoVector} : BackfillEmbed(v)
  \/ \E fsOk \in BOOLEAN : BackfillFinish(fsOk)
  \/ Restart

SpecBackfill == InitBackfill /\ [][NextBackfill]_vars

(***************************************************************************)
(* The cache write and the response as two steps: Redis applies the SET of *)
(* a request, and the handler goes on to res.json when the reply of Redis  *)
(* has reached it; the SET of another request may be applied in between.   *)
(***************************************************************************)
\* AskCacheSetSettles that stores the question in the place of the answer
AskCacheSetSettlesStoresQuestion(i, redisOk) ==
  /\ req[i].pc = "set"
  /\ redis' = IF redisOk THEN RedisSet(req[i].body.str, req[i].body.str, EX)
                         ELSE redis
  /\ req' = [req EXCEPT ![i] = [@ EXCEPT !.pc = "respond",
                                         !.setFailed = ~redisOk]]
  /\ last' = IdleReq
  /\ UNCHANGED <<phase, chatHistory, disk, saved, bfIdx, updated, now, nReq,
                 answered>>

\* redisClient.set: Redis has stored the entry, or the call fails; the
\* handler is still awaiting it
AskCacheSetSettles(i, redisOk) ==
  /\ req[i].pc = "set"
  /\ redis' = IF redisOk THEN RedisSet(req[i].body.str, req[i].answer, EX)
                         ELSE redis
  /\ req' = [req EXCEPT ![i] = [@ EXCEPT !.pc = "respond",
                                         !.setFailed = ~redisOk]]
  /\ last' = IdleReq
  /\ UNCHANGED <<phase, chatHistory, disk, saved, bfIdx, updated, now, nReq,
                 answered>>

\* the await of redisClient.set is over (or its catch block has logged):
\* res.json({reply})
AskCacheSetResponds(i) ==
  /\ req[i].pc = "respond"
  /\ Respond(i, req[i], 200, req[i].answer)
  /\ UNCHANGED <<phase, chatHistory, disk, saved, bfIdx, updated, redis, now,
                 nReq>>

NextCacheWrite ==
  \/ \E i \in Slots, body \in Bodies : AskReceive(i, body)
  \/ \E i \in Slots, redisOk \in BOOLEAN : AskCacheGet(i, redisOk)
  \/ \E i \in Slots, v \in Vectors \cup {NoVector} : AskEmbedding(i, v)
  \/ \E i \in Slots : AskGenerationFails(i)
  \/ \E i \in Slots, c \in Contents, fsOk \in BOOLEAN : AskGeneration(i, c, fsOk)
  \/ \E i \in Slots, redisOk \in BOOLEAN : AskCacheSetSettles(i, redisOk)
  \/ \E i \in Slots : AskCacheSetResponds(i)
  \/ \E fsOk \in BOOLEAN : ClearHistory(Str(ADMIN_API_KEY), fsOk)

SpecCacheWrite == InitTtl /\ [][NextCacheWrite]_vars

(***************************************************************************)
(* Properties.                                                             *)
(***************************************************************************)
Asking(i) == req[i].pc # "idle"
Question(i) == req[i].body.str

\* the request of slot i ends in this step
Ends(i) == Asking(i) /\ req'[i].pc = "idle" /\ last'.op = "ask"

\* question, answer and timestamp of every chat, without the embeddings
Core(history) ==
  [k \in 1..Len(history) |->
     [question |-> history[k].question, answer |-> history[k].answer,
      timestamp |-> history[k].timestamp]]

IsPrefix(s, t) == Len(s) <= Len(t) /\ SubSeq(t, 1, Len(s)) = s

\* missing, not a string, empty or whitespace-only
Malformed(b) ==
  \/ b.type # "string"
  \/ \A k \in 1..Len(b.str) : b.str[k] = " "

C2_KnownFromCache ==
  [][\A i \in Slots :
       (req[i].pc = "get" /\ req'[i].pc # "get" /\ Known(Question(i)))
       => /\ last'.op = "ask" /\ last'.source = "cache"
          /\ last'.embedCalls = 0
          /\ \E k \in 1..Len(chatHistory) :
               /\ chatHistory[k].question = Question(i)
               /\ chatHistory[k].answer = last'.reply]_vars

\* C2 (amended): an /ask whose question has a live, non-empty hot cache entry
\* and whose cache read succeeds is answered with that entry's value, with no
\* call to the embedding or the generation provider.
C2_HitNoEmbedding ==
  [][\A i \in Slots :
       (AskCacheGet(i, TRUE) /\ RedisGet(Question(i)) # NoText)
       => /\ req'[i].pc = "idle"
          /\ last'.op = "ask" /\ last'.source = "cache"
          /\ last'.status = 200
          /\ last'.reply = RedisGet(Question(i))
          /\ last'.embedCalls = 0 /\ last'.genCalls = 0]_vars

C2_Witness ==
  /\ last.op = "ask" /\ last.source = "cache"
  /\ last.embedCalls = 0
  /\ \E k \in 1..Len(chatHistory) :
       /\ chatHistory[k].question = last.body.str
       /\ chatHistory[k].answer = last.reply

\* C3: a malformed question is answered 400 and changes nothing: no call to
\* Redis or to a provider, chat history, file and hot cache unchanged.
C3_MalformedNoEffect ==
  [][\A i \in Slots, b \in Bodies :
       (Malformed(b) /\ AskReceive(i, b))
       => /\ last'.op = "ask" /\ last'.status = 400
          /\ last'.getCalls = 0 /\ last'.setCalls = 0
          /\ last'.embedCalls = 0 /\ last'.genCalls = 0
          /\ last'.appended = 0
          /\ req'[i].pc = "idle"
          /\ UNCHANGED <<chatHistory, disk, redis>>]_vars

C3_Witness ==
  /\ last.op = "ask" /\ last.status = 400
  /\ last.body = Str(<<" ">>)
  /\ chatHistory # <<>> /\ redis # {}

\* C4: a chat is appended exactly when a generation call of a request
\* succeeds, and then exactly one chat, for that request's question; a
\* request answered from the hot cache or from a similar chat appends none.
C4_PersistOncePerGeneration ==
  [][/\ \A i \in Slots :
          (req[i].pc = "gen" /\ req'[i].pc = "set")
          => /\ Len(chatHistory') = Len(chatHistory) + 1
             /\ SubSeq(chatHistory', 1, Len(chatHistory)) = chatHistory
             /\ chatHistory'[Len(chatHistory')].question = Question(i)
             /\ req'[i].appended = 1
     /\ (\A i \in Slots : ~(req[i].pc = "gen" /\ req'[i].pc = "set"))
          => Len(chatHistory') <= Len(chatHistory)
     /\ \A i \in Slots :
          Ends(i) =>
            /\ last'.appended = (IF last'.source = "generated" THEN 1 ELSE 0)
            /\ (last'.source = "generated") =
                 (last'.genCalls = 1 /\ last'.status = 200)
            /\ last'.source \in {"cache", "similar"}
                 => Len(chatHistory') = Len(chatHistory)]_vars

C4_Witness ==
  /\ last.op = "ask" /\ last.source = "similar" /\ last.appended = 0
  /\ \E k \in 1..Len(chatHistory) : chatHistory[k].question = <<" ", "a">>

\* C5: when the generation call fails the request is answered 500, no chat
\* is appended or written to the file, and no hot cache entry is written.
C5_GenerationFailure ==
  [][\A i \in Slots :
       (req[i].pc = "gen" /\ req'[i].pc # "gen" /\ req'[i].pc # "set")
       => /\ last'.op = "ask" /\ last'.status = 500
          /\ last'.appended = 0 /\ last'.setCalls = 0
          /\ UNCHANGED <<chatHistory, disk, redis>>]_vars

C5_Witness ==
  /\ last.op = "ask" /\ last.status = 500 /\ last.genCalls = 1
  /\ last.appended = 0

C7_CacheFailureNotFatal ==
  /\ (last.op = "ask" /\ last.status = 500 /\ last.getCalls = 1) =>
        (last.embedCalls = 1 \/ last.genCalls = 1)
  /\ (last.op = "ask" /\ last.setFailed) =>
        (last.status = 200 /\ last.reply = last.answer)

\* C8: when the write of chatHistory.json fails after an answer was
\* generated, the request is still answered 200 with that answer.
C8_PersistenceBestEffort ==
  /\ \A i \in Slots : req[i].saveFailed =>
        req[i].pc = "set" /\ req[i].source = "generated"
  /\ (last.op = "ask" /\ last.saveFailed) =>
        /\ last.status = 200
        /\ last.source = "generated"
        /\ last.reply = last.answer
        /\ last.appended = 1

C8_Witness ==
  /\ last.op = "ask" /\ last.saveFailed /\ last.status = 200
  /\ disk # chatHistory

\* C9: every step other than an authorised clear keeps the chats already in
\* the history as a prefix, with their question, answer and timestamp.
C9_AppendOnly ==
  [][\/ IsPrefix(Core(chatHistory), Core(chatHistory'))
     \/ \E fsOk \in BOOLEAN : ClearHistory(Str(ADMIN_API_KEY), fsOk)]_vars

C9_Witness ==
  /\ Len(chatHistory) >= 2
  /\ \E k \in 1..Len(chatHistory) : HasEmbedding(chatHistory[k])
  /\ last.op = "ask" /\ last.source = "generated"

C11_DuplicationRace ==
  [][\A i \in Slots :
       (req[i].pc = "gen" /\ req'[i].pc = "set" /\ Known(Question(i)))
       => /\ Len(chatHistory') = Len(chatHistory) + 1
          /\ SubSeq(chatHistory', 1, Len(chatHistory)) = chatHistory
          /\ chatHistory'[Len(chatHistory')].question = Question(i)
          /\ req'[i].genCalls = 1 /\ req'[i].appended = 1]_vars

C11_Witness ==
  /\ req[1].pc = "set" /\ req[2].pc = "set"
  /\ req[1].body = req[2].body
  /\ req[1].getCalls = 1 /\ req[2].getCalls = 1
  /\ req[1].genCalls = 1 /\ req[2].genCalls = 1
  /\ req[1].appended = 1 /\ req[2].appended = 1
  /\ \E k, m \in 1..Len(chatHistory) :
        /\ k < m
        /\ chatHistory[k].question = req[1].body.str
        /\ chatHistory[m].question = req[1].body.str
        /\ chatHistory[k].timestamp = now /\ chatHistory[m].timestamp = now

\* C12: a clear that is answered 200 leaves the list empty in the same step,
\* GET /history answers with the list as it is, so a GET /history right after
\* the clear answers the empty list, and no step removes only part of the
\* chats.
C12_ClearAtomic ==
  [][/\ (last'.op = "clear" /\ last'.status = 200) => chatHistory' = <<>>
     /\ (last'.op = "history" /\ last'.status = 200)
           => /\ last'.list = chatHistory
              /\ (last.op = "clear" /\ last.status = 200) => last'.list = <<>>
     /\ Len(chatHistory') < Len(chatHistory) => chatHistory' = <<>>]_vars

C12_Witness ==
  /\ last.op = "history" /\ last.status = 200 /\ last.list = <<>>
  /\ chatHistory = <<>> /\ disk # <<>>

\* C13: the admin routes leave the hot cache alone, only expiry
\* removes an entry, and after a clear an /ask whose question has an
\* unexpired entry is answered with it, with no provider call and no push.
C13_ClearKeepsCacheHit ==
  [][/\ last'.op \in {"clear", "history"} => redis' = redis
     /\ \A i \in Slots :
          ( /\ AskCacheGet(i, TRUE)
            /\ \E e \in redis : e.key = Question(i)
            /\ chatHistory = <<>> )
          => /\ req'[i].pc = "idle"
             /\ last'.op = "ask" /\ last'.source = "cache"
             /\ last'.embedCalls = 0 /\ last'.genCalls = 0]_vars

\* C13 for entries with a non-empty value: the admin routes leave the hot
\* cache unchanged, an entry leaves the cache only by expiry (a SET replaces
\* the entry of its key), and after a clear an /ask whose question has an
\* unexpired, non-empty entry and whose cache read succeeds is answered 200
\* with the entry's value, with no call to the embedding or the generation
\* provider and no push to the list.
C13_ClearKeepsCache ==
  [][/\ last'.op \in {"clear", "history"} => redis' = redis
     /\ \A e \in redis :
          \/ e \in redis'
          \/ \E f \in redis' : f.key = e.key
          \/ now' > now /\ e.expiresAt <= now'
     /\ \A i \in Slots :
          ( /\ AskCacheGet(i, TRUE)
            /\ RedisGet(Question(i)) # NoText
            /\ chatHistory = <<>> )
          => /\ req'[i].pc = "idle"
             /\ last'.op = "ask" /\ last'.source = "cache"
             /\ last'.status = 200
             /\ last'.reply = RedisGet(Question(i))
             /\ last'.embedCalls = 0 /\ last'.genCalls = 0
             /\ last'.appended = 0
             /\ chatHistory' = <<>> /\ disk' = disk]_vars

C13_Witness ==
  /\ last.op = "ask" /\ last.source = "cache" /\ last.status = 200
  /\ last.reply # NoText
  /\ chatHistory = <<>> /\ redis # {}

\* the cosine of vecA and vecB is at least n / d, for 0 < n <= d
ScoreAtLeast(vecA, vecB, n, d) ==
  /\ Dot(vecA, vecB, 1) > 0
  /\ d * d * Dot(vecA, vecB, 1) * Dot(vecA, vecB, 1)
       >= n * n * Dot(vecA, vecA, 1) * Dot(vecB, vecB, 1)

\* C14: when the embedding of the question arrives, the answer of a chat is
\* reused if and only if some chat with an embedding scores at least 0.8
\* against it, and the reused answer is that of such a chat; otherwise the
\* generation provider is called, also when a chat scores above 0.
C14_Threshold ==
  [][\A i \in Slots, v \in ScanVectors :
       AskEmbedding(i, v) =>
         LET Hits == { k \in 1..Len(chatHistory) :
                         /\ HasEmbedding(chatHistory[k])
                         /\ ScoreAtLeast(v, chatHistory[k].embedding, 4, 5) }
         IN IF Hits # {}
            THEN /\ req'[i].pc = "set" /\ req'[i].source = "similar"
                 /\ req'[i].genCalls = 0
                 /\ \E k \in Hits : req'[i].answer = chatHistory[k].answer
            ELSE /\ req'[i].pc = "gen" /\ req'[i].genCalls = 1
                 /\ req'[i].source = "none"]_vars

C14_Witness ==
  /\ req[1].pc = "gen"
  /\ \E k \in 1..Len(chatHistory) :
        /\ HasEmbedding(chatHistory[k])
        /\ Dot(req[1].userEmbedding, chatHistory[k].embedding, 1) > 0
        /\ ~ScoreAtLeast(req[1].userEmbedding, chatHistory[k].embedding, 4, 5)

\* the cosine of v and e1 is below that of v and e2, both being above 0
ScoreBelow(v, e1, e2) ==
  Dot(v, e1, 1) * Dot(v, e1, 1) * Dot(e2, e2, 1)
    < Dot(v, e2, 1) * Dot(v, e2, 1) * Dot(e1, e1, 1)

\* position of the first of the chats with the highest score above 0
\* against v, among those with an embedding; 0 when there is none
EarliestMax(v, history) ==
  LET Scored == { k \in 1..Len(history) :
                    HasEmbedding(history[k]) /\ Dot(v, history[k].embedding, 1) > 0 }
  IN IF Scored = {} THEN 0
     ELSE CHOOSE k \in Scored :
            \A m \in Scored :
               \/ ScoreBelow(v, history[m].embedding, history[k].embedding)
               \/ /\ ~ScoreBelow(v, history[k].embedding, history[m].embedding)
                  /\ k <= m

C16_TtlOneHour ==
  [][/\ \A e \in redis' \ redis : e.expiresAt = now + 3600 /\ now' = now
     /\ \A e \in redis' : now' < e.expiresAt
     /\ \A i \in Slots :
          (Ends(i) /\ last'.source = "cache")
          => \E e \in redis :
                /\ e.key = Question(i) /\ e.value = last'.reply
                /\ e.expiresAt - 3600 <= now /\ now < e.expiresAt
     /\ \A i \in Slots :
          ( /\ req[i].pc = "get" /\ req'[i].pc # "get"
            /\ ~\E e \in redis : e.key = Question(i) /\ now < e.expiresAt )
          => req'[i].pc = "embed" /\ req'[i].embedCalls = 1]_vars

C16_Witness ==
  /\ last.op = "ask" /\ last.source = "cache" /\ last.status = 200
  /\ 0 < now /\ now < 3600
  /\ \E e \in redis : e.key = last.body.str /\ e.expiresAt = 3600

\* C17: every chat of the list has a non-empty question and a non-empty
\* answer.
C17_NonEmptyRecords ==
  \A k \in 1..Len(chatHistory) :
    chatHistory[k].question # <<>> /\ chatHistory[k].answer # <<>>

\* C18: an admin request whose x-api-key header is not the key is answered
\* 403 without the list, and changes neither the list nor the file.
C18_AdminRequiresKey ==
  [][(last'.op \in {"history", "clear"} /\ last'.apiKey # Str(ADMIN_API_KEY))
       => /\ last'.status = 403
          /\ last'.list = <<>>
          /\ chatHistory' = chatHistory
          /\ disk' = disk]_vars

\* C19: a request never sends more than one response and never calls the
\* embedding or the generation provider more than once; a request that ends
\* has sent exactly one response and ends there, in its response and not in
\* the catch block after it; and the process does not end under a request
\* that has not been answered.
C19_ExactlyOneResponse ==
  /\ \A i \in Slots :
        /\ req[i].responses <= 1
        /\ req[i].embedCalls <= 1 /\ req[i].genCalls <= 1
        /\ (phase = "exited" /\ Asking(i)) => req[i].responses = 1
  /\ last.op = "ask" =>
        /\ last.pc = "done"
        /\ last.responses = 1
        /\ last.embedCalls <= 1 /\ last.genCalls <= 1

\* C20: a step of initializeEmbeddings keeps the length of the list and the
\* question, answer and timestamp of every chat, leaves a chat that has an
\* embedding as it is, and changes a chat only by giving it the embedding it
\* lacked; a run that starts when every chat has an embedding ends at once,
\* with no embedding call and no save, and changes nothing.
C20_BackfillIdempotent ==
  [][phase = "backfill" =>
       /\ Len(chatHistory') = Len(chatHistory)
       /\ Core(chatHistory') = Core(chatHistory)
       /\ \A k \in 1..Len(chatHistory) :
             /\ HasEmbedding(chatHistory[k]) => chatHistory'[k] = chatHistory[k]
             /\ chatHistory'[k] # chatHistory[k] =>
                   /\ HasEmbedding(chatHistory'[k])
                   /\ phase' = "backfill" /\ updated'
       /\ ( /\ ~updated
            /\ \A k \in 1..Len(chatHistory) : HasEmbedding(chatHistory[k]) )
          => /\ phase' = "listening"
             /\ chatHistory' = chatHistory
             /\ disk' = disk /\ saved' = saved /\ ~updated']_vars

C20_Witness ==
  /\ phase = "listening" /\ ~updated
  /\ Len(chatHistory) = MaxBackfill
  /\ \A k \in 1..Len(chatHistory) : HasEmbedding(chatHistory[k])
  /\ chatHistory[1].embedding # chatHistory[2].embedding
  /\ disk = chatHistory /\ saved

\* a vector whose components are all 0
AllZero(vec) == \A j \in 1..Len(vec) : vec[j] = 0

\* C21: when the scan of /ask scores the embedding of the question against
\* the embedding of a chat, the score is the same with the two vectors
\* exchanged; it is a quotient by a number that is not 0; and it is 0 when
\* either vector is all 0.
C21_Symmetric ==
  [][\A i \in Slots, v \in ScanVectors :
       AskEmbedding(i, v) =>
         \A k \in 1..Len(chatHistory) :
           HasEmbedding(chatHistory[k]) =>
             LET e == chatHistory[k].embedding
             IN /\ cosineSimilarity(v, e) = cosineSimilarity(e, v)
                /\ cosineSimilarity(v, e).den # 0
                /\ (AllZero(v) \/ AllZero(e)) =>
                      /\ cosineSimilarity(v, e).num = 0
                      /\ cosineSimilarity(e, v).num = 0]_vars

\* the question's embedding and a chat's are both all 0, and the question's
\* has been scored against another chat's that is not
C21_Witness ==
  /\ req[1].pc = "gen" /\ AllZero(req[1].userEmbedding)
  /\ \E k, l \in 1..Len(chatHistory) :
        /\ HasEmbedding(chatHistory[k]) /\ AllZero(chatHistory[k].embedding)
        /\ HasEmbedding(chatHistory[l]) /\ ~AllZero(chatHistory[l].embedding)

\* C22: a request whose answer was generated has called the generation
\* provider and pushed its chat before redisClient.set is called, and sends
\* no response while redisClient.set is awaited; when it ends with its
\* answer, it has generated, pushed and called redisClient.set, once each.
C22_GenerationOrder ==
  /\ \A i \in Slots :
        /\ req[i].appended >= 1 => req[i].genCalls = 1
        /\ (req[i].source = "generated" /\ req[i].setCalls >= 1) =>
              req[i].genCalls = 1 /\ req[i].appended = 1
        /\ (req[i].source = "generated" /\ req[i].pc = "set") =>
              req[i].responses = 0
  /\ (last.op = "ask" /\ last.source = "generated" /\ last.status = 200) =>
        /\ last.genCalls = 1 /\ last.appended = 1 /\ last.setCalls = 1
        /\ last.responses = 1

\* C23 as stated: after an /ask that ended with an answer not taken from the
\* hot cache, and whose cache write did not fail, the hot cache maps the
\* question to the reply just sent.
C23_CacheHoldsReply ==
  (last.op = "ask" /\ last.status = 200 /\ last.source \in {"similar", "generated"}
     /\ ~last.setFailed)
  => \E e \in redis : e.key = last.body.str /\ e.value = last.reply

\* C23 (amended): an answer that is reused is the answer of the best match;
\* a cache write that succeeds leaves one entry for the question of the
\* request, holding the answer of the request; and the reply sent after the
\* write, failed or not, is that answer.
C23_WriteThenReply ==
  [][\A i \in Slots :
       /\ \A v \in Vectors :
             (AskEmbedding(i, v) /\ req'[i].pc = "set") =>
               /\ req'[i].source = "similar"
               /\ req'[i].answer = chatHistory[EarliestMax(v, chatHistory)].answer
       /\ (req[i].pc = "set" /\ req'[i].pc = "respond") =>
             /\ req'[i].answer = req[i].answer /\ req'[i].body = req[i].body
             /\ req'[i].responses = 0
             /\ ~req'[i].setFailed =>
                   /\ \E e \in redis' :
                         e.key = Question(i) /\ e.value = req[i].answer
                   /\ Cardinality({ e \in redis' : e.key = Question(i) }) = 1
             /\ req'[i].setFailed => redis' = redis
       /\ (req[i].pc = "respond" /\ req'[i].pc # "respond") =>
             /\ last'.op = "ask" /\ last'.status = 200
             /\ last'.body = req[i].body /\ last'.reply = req[i].answer
             /\ last'.responses = 1
             /\ redis' = redis]_vars

\* a reused answer was written to the cache and sent
C23_Witness ==
  /\ last.op = "ask" /\ last.status = 200 /\ last.source = "similar"
  /\ ~last.setFailed /\ last.reply # NoText
  /\ \E e \in redis : e.key = last.body.str /\ e.value = last.reply

\* C24: before the server listens no request is in flight and no step
\* receives, advances or answers one, or touches the hot cache; the server
\* comes to listen only from the backfill, when no chat is left for it to
\* look at; a connection that fails ends the process, and a process that
\* has ended stays so.
C24_StartupOrder ==
  [][/\ phase # "listening" =>
          /\ \A i \in Slots : ~Asking(i)
          /\ nReq = 0 /\ last = IdleReq
          /\ req' = req /\ nReq' = nReq /\ last' = IdleReq
          /\ answered' = answered /\ redis' = redis
     /\ (phase # "listening" /\ phase' = "listening") =>
          /\ phase = "backfill"
          /\ bfIdx' = Len(chatHistory) + 1
          /\ \A k \in bfIdx..Len(chatHistory) : HasEmbedding(chatHistory[k])
          /\ chatHistory' = chatHistory
     /\ phase = "connecting" => phase' \in {"connecting", "backfill", "exited"}
     /\ Connect(FALSE) => phase' = "exited"
     /\ phase = "exited" => phase' = "exited"]_vars

\* a request is answered by a server whose backfill gave the loaded chat its
\* embedding
C24_Witness ==
  /\ phase = "listening" /\ updated
  /\ last.op = "ask" /\ last.status = 200
  /\ Len(chatHistory) >= 1 /\ HasEmbedding(chatHistory[1])

\* C25: a clear empties the list and leaves the requests in flight as they
\* are; a request that has its embedding while the list is empty goes on to
\* the generation; a generation that returns puts the chat of its request at
\* the end of the list as it is then, the emptied list included; and while
\* the server listens nothing else changes the list, so that the list after
\* a clear is the chats of the generations that returned since, in the order
\* in which they returned.
C25_ClearThenAppend ==
  [][phase = "listening" =>
       /\ (last'.op = "clear" /\ last'.status = 200) =>
             chatHistory' = <<>> /\ req' = req
       /\ \A i \in Slots :
             (req[i].pc = "embed" /\ req'[i].pc = "set") => chatHistory # <<>>
       /\ \A i \in Slots :
             (req[i].pc = "gen" /\ req'[i].pc # "gen" /\ last'.op # "clear") =>
               \/ /\ last'.op = "ask" /\ last'.status = 500
                  /\ chatHistory' = chatHistory
               \/ /\ req'[i].pc = "set" /\ req'[i].appended = 1
                  /\ chatHistory' =
                        Append(chatHistory,
                               [question |-> Question(i),
                                answer |-> req'[i].answer,
                                timestamp |-> now,
                                embedding |-> req[i].userEmbedding])
       /\ chatHistory' # chatHistory =>
             \/ last'.op = "clear" /\ last'.status = 200
             \/ \E i \in Slots : req[i].pc = "gen" /\ req'[i].pc = "set"]_vars

\* a clear has just been answered while one request awaits its embedding
\* and the other its generation, over a list that held a chat
C25_Witness ==
  /\ last.op = "clear" /\ last.status = 200
  /\ chatHistory = <<>> /\ updated
  /\ \E i, j \in Slots : req[i].pc = "embed" /\ req[j].pc = "gen"

====
